---- MODULE Spec2Model ----
(***************************************************************************)
(* Model of src/bot.py: a Telegram bot that pages through a catalog of     *)
(* compounds, reloads it on request, and relays one file per selection     *)
(* from a remote host.  Strings that the code parses (callback data) are   *)
(* sequences of one-character strings; strings it only builds are tuples   *)
(* of their pieces.                                                        *)
(***************************************************************************)
EXTENDS Integers, Sequences, FiniteSets, TLC

\* ------------------------------------------------------------------ bounds

\* Longest catalog the data file may hold.
MaxLen == 17

\* ------------------------------------------------------- python primitives

Digits == <<"0", "1", "2", "3", "4", "5", "6", "7", "8", "9">>

RECURSIVE NatStr(_)
NatStr(n) == IF n < 10 THEN <<Digits[n + 1]>>
             ELSE NatStr(n \div 10) \o <<Digits[(n % 10) + 1]>>

\* str(n) / f"{n}" of a Python int
PyStr(n) == IF n < 0 THEN <<"-">> \o NatStr(-n) ELSE NatStr(n)

DigitVal(c) == CHOOSE d \in 0..9 : Digits[d + 1] = c

IsDigit(c) == \E d \in 0..9 : Digits[d + 1] = c

RECURSIVE NatVal(_)
NatVal(s) == IF Len(s) = 0 THEN 0
             ELSE 10 * NatVal(SubSeq(s, 1, Len(s) - 1)) + DigitVal(s[Len(s)])

\* int(s): an optional sign and at least one digit, else ValueError
PyInt(s) ==
    LET signed == Len(s) > 0 /\ s[1] \in {"-", "+"}
        body   == IF signed THEN SubSeq(s, 2, Len(s)) ELSE s
        valid  == Len(body) > 0 /\ \A k \in 1..Len(body) : IsDigit(body[k])
    IN IF ~valid THEN [ok |-> FALSE, value |-> 0]
       ELSE [ok |-> TRUE,
             value |-> IF signed /\ s[1] = "-" THEN -NatVal(body) ELSE NatVal(body)]

\* s.startswith(prefix)
StartsWith(s, prefix) ==
    Len(s) >= Len(prefix) /\ SubSeq(s, 1, Len(prefix)) = prefix

\* s.split(sep) for a one-character separator
RECURSIVE Split(_, _)
Split(s, sep) ==
    IF \A k \in 1..Len(s) : s[k] # sep THEN <<s>>
    ELSE LET first == CHOOSE k \in 1..Len(s) :
                          s[k] = sep /\ \A m \in 1..(k - 1) : s[m] # sep
         IN <<SubSeq(s, 1, first - 1)>> \o Split(SubSeq(s, first + 1, Len(s)), sep)

\* int(data.split("_")[1]); the prefix test before it guarantees two fields
SplitInt(data) == PyInt(Split(data, "_")[2])

Min(a, b) == IF a < b THEN a ELSE b

Max(a, b) == IF a > b THEN a ELSE b

\* seq[start:end] with Python's treatment of negative and overlong bounds
\* (0-based, end exclusive)
PySlice(seq, start, end) ==
    LET n  == Len(seq)
        lo == IF start < 0 THEN Max(start + n, 0) ELSE Min(start, n)
        hi == IF end < 0 THEN Max(end + n, 0) ELSE Min(end, n)
    IN SubSeq(seq, lo + 1, hi)

\* seq[idx] raises IndexError outside -len .. len-1
PyIndexOk(seq, idx) == -Len(seq) <= idx /\ idx < Len(seq)

\* seq[idx] with Python's negative indexing (0-based)
PyIndex(seq, idx) == IF idx < 0 THEN seq[idx + Len(seq) + 1] ELSE seq[idx + 1]

\* None and str values of os.getenv
None == [type |-> "NoneType", value |-> ""]

Str(s) == [type |-> "str", value |-> s]

\* truth value of an os.getenv result: None and "" are falsy
Truthy(v) == v.type = "str" /\ v.value # ""

\* ----------------------------------------------------------------- catalog

\* A compound object of compounds.json; two families of distinct records.
Rec(v, i) == [formula |-> <<"formula", v, i>>,
              name    |-> <<"name", v, i>>,
              file    |-> <<"file", v, i>>]

Versions == {1, 2}

Catalog(v, n) == [i \in 1..n |-> Rec(v, i)]

\* What compounds.json may hold when load_compounds() opens it.
FileContents ==
    {[kind |-> "missing", compounds |-> <<>>],
     [kind |-> "malformed_json", compounds |-> <<>>],
     [kind |-> "no_compounds_key", compounds |-> <<>>]}
    \cup {[kind |-> "ok", compounds |-> Catalog(v, n)] : v \in Versions, n \in 0..MaxLen}

GITHUB_BRANCH == "compounds"

ITEMS_PER_PAGE == 8

GetTimeout == 30


\* ------------------------------------------------------------------- state

VARIABLES
    BOT_TOKEN,        \* os.getenv('BOT_TOKEN')
    GITHUB_USERNAME,  \* os.getenv('USERNAME')
    GITHUB_REPO,      \* os.getenv('REPO')
    file,             \* what compounds.json held when it was last opened
    COMPOUNDS,        \* the module-level catalog
    proc,             \* "imported", "serving", "halted", or "crashed" by an
                      \* exception of the module body
    startup_log,      \* what the module and main() logged before serving
    pc,               \* per handler: the await it is suspended at
    update,           \* per handler: the update it is handling
    compound,         \* per handler: the local variable compound
    calls,            \* per handler: the outward calls it has made, in order
    concurrent_updates \* the application's setting of that name

vars == <<BOT_TOKEN, GITHUB_USERNAME, GITHUB_REPO, file, COMPOUNDS, proc,
          startup_log, pc, update, compound, calls, concurrent_updates>>

\* Slots for the coroutines the application may have in progress.
Handlers == {1, 2}

EnvValues == {None, Str(""), Str("set")}

\* GITHUB_RAW_URL, as the pieces the f-string joins
GITHUB_RAW_URL ==
    <<"https://raw.githubusercontent.com/", GITHUB_USERNAME.value, "/",
      GITHUB_REPO.value, "/", GITHUB_BRANCH, "/">>

\* ------------------------------------------------------------ load_compounds

\* The exception open / json.load / data['compounds'] raises on this file.
LoadException(f) ==
    CASE f.kind = "missing"          -> "FileNotFoundError"
      [] f.kind = "malformed_json"   -> "JSONDecodeError"
      [] f.kind = "no_compounds_key" -> "KeyError"
      [] OTHER                       -> "none"

LogError(text) == [op |-> "logger.error", text |-> text]

LogInfo(text) == [op |-> "logger.info", text |-> text]

\* A call's result: the exception it raised ("none" when it returned), the
\* value it returned, and what it logged.
Result(raised, value, log) == [raised |-> raised, value |-> value, log |-> log]

\* lines 33-35, the body of the try block
read_compounds(f) ==
    IF f.kind = "ok" THEN Result("none", f.compounds, <<>>)
    ELSE Result(LoadException(f), <<>>, <<>>)

\* a load_compounds whose except clause catches only a missing file
load_compounds_catching_oserror(f) ==
    LET r == read_compounds(f)
    IN IF r.raised = "FileNotFoundError"
         THEN Result("none", <<>>,
                     <<LogError(<<"Error loading compounds.json", r.raised>>)>>)
         ELSE r

\* load_compounds() on a file holding f: `except Exception` turns every
\* exception of the try block into a logged error and an empty list
load_compounds(f) ==
    LET r == read_compounds(f)
    IN IF r.raised # "none"
         THEN Result("none", <<>>,
                     <<LogError(<<"Error loading compounds.json", r.raised>>)>>)
         ELSE r

\* ----------------------------------------------------------- create_keyboard

Button(text, callback_data) == [text |-> text, callback_data |-> callback_data]

PAGE_ == <<"p", "a", "g", "e", "_">>

COMPOUND_ == <<"c", "o", "m", "p", "o", "u", "n", "d", "_">>

REFRESH == <<"r", "e", "f", "r", "e", "s", "h">>

\* a slice whose end index is one short
page_compounds_short(catalog, page) ==
    PySlice(catalog, page * ITEMS_PER_PAGE, page * ITEMS_PER_PAGE + ITEMS_PER_PAGE - 1)

\* COMPOUNDS[start_idx:end_idx]
page_compounds(catalog, page) ==
    PySlice(catalog, page * ITEMS_PER_PAGE, page * ITEMS_PER_PAGE + ITEMS_PER_PAGE)

\* (len(COMPOUNDS) + ITEMS_PER_PAGE - 1) // ITEMS_PER_PAGE
total_pages(catalog) == (Len(catalog) + ITEMS_PER_PAGE - 1) \div ITEMS_PER_PAGE

\* a button whose token carries the position within the page
CompoundButton_page_relative(catalog, page, k) ==
    LET c == page_compounds(catalog, page)[k + 1]
    IN Button(<<c.formula, " - ", c.name>>, COMPOUND_ \o PyStr(k))

\* the button of the k-th record (0-based) of the page slice
CompoundButton(catalog, page, k) ==
    LET c == page_compounds(catalog, page)[k + 1]
    IN Button(<<c.formula, " - ", c.name>>,
              COMPOUND_ \o PyStr(page * ITEMS_PER_PAGE + k))

\* the rows of compound buttons, two per row
compound_rows(catalog, page) ==
    LET n == Len(page_compounds(catalog, page))
    IN [r \in 1..((n + 1) \div 2) |->
           [j \in 1..(IF 2 * r <= n THEN 2 ELSE 1) |->
               CompoundButton(catalog, page, 2 * (r - 1) + (j - 1))]]

nav_buttons(catalog, page) ==
    (IF page > 0
       THEN <<Button("Previous", PAGE_ \o PyStr(page - 1))>> ELSE <<>>)
    \o (IF page < total_pages(catalog) - 1
          THEN <<Button("Next", PAGE_ \o PyStr(page + 1))>> ELSE <<>>)

\* create_keyboard(page), with the global COMPOUNDS it reads as `catalog`:
\* the rows of the InlineKeyboardMarkup
create_keyboard(catalog, page) ==
    compound_rows(catalog, page)
    \o (IF nav_buttons(catalog, page) # <<>>
          THEN <<nav_buttons(catalog, page)>> ELSE <<>>)
    \o << <<Button("Refresh List", REFRESH)>> >>

\* reply_markup of a call that passes none
NoMarkup == <<>>

back_keyboard == << <<Button("Back to List", PAGE_ \o PyStr(0))>> >>

\* ------------------------------------------------------------ outward calls

\* A call that renders a menu also records which page of which catalog it
\* rendered; other calls record NoRender.
NoRender == [menu |-> FALSE, page |-> 0, catalog |-> <<>>]

Render(catalog, page) == [menu |-> TRUE, page |-> page, catalog |-> catalog]

\* a call to the chat transport
Call(op, text, reply_markup, rendered) ==
    [op |-> op, text |-> text, reply_markup |-> reply_markup, rendered |-> rendered]

\* requests.get(file_url, timeout=30) and how it ended
Get(url, outcome) ==
    [op |-> "requests.get", url |-> url, timeout |-> GetTimeout, outcome |-> outcome]

\* context.bot.send_document(...)
SendDocument(document, filename, caption) ==
    [op |-> "bot.send_document", document |-> document, filename |-> filename,
     caption |-> caption]

\* How requests.get / raise_for_status may end: a 2xx response, an HTTPError
\* for a 4xx/5xx status, Timeout, ConnectionError.
HttpOutcomes == {"200", "404", "Timeout", "ConnectionError"}

IsRequestException(outcome) == outcome # "200"

\* response.content of a successful GET
Content(url) == <<"bytes at", url>>

\* ---------------------------------------------------------------- updates

PageInputs == -2..3

IndexInputs == {-(MaxLen + 1), -1, 0, 1, ITEMS_PER_PAGE, MaxLen - 1, MaxLen}

\* Callback data an update may carry: tokens the menus render, stale and
\* out-of-range ones, and strings no menu renders.
Tokens ==
    {PAGE_ \o PyStr(p) : p \in PageInputs}
    \cup {COMPOUND_ \o PyStr(i) : i \in IndexInputs}
    \cup {REFRESH}
    \cup {PAGE_, COMPOUND_ \o <<"x">>, <<"n", "o", "o", "p">>, REFRESH \o <<"_">>}

NoUpdate == [kind |-> "none", data |-> <<>>]

CommandUpdate(cmd) == [kind |-> cmd, data |-> <<>>]

CallbackUpdate(data) == [kind |-> "callback_query", data |-> data]

NoCompound == [formula |-> <<>>, name |-> <<>>, file |-> <<>>]

\* ------------------------------------------------------------ startup

\* State after the module body has run: the environment is read and
\* COMPOUNDS = load_compounds() has been evaluated (lines 21-40).
Init ==
    /\ BOT_TOKEN \in EnvValues
    /\ GITHUB_USERNAME \in EnvValues
    /\ GITHUB_REPO \in EnvValues
    /\ file \in FileContents
    /\ COMPOUNDS = load_compounds(file).value
    /\ startup_log = load_compounds(file).log
    /\ proc = (IF load_compounds(file).raised = "none" THEN "imported" ELSE "crashed")
    /\ pc = [h \in Handlers |-> "idle"]
    /\ update = [h \in Handlers |-> NoUpdate]
    /\ compound = [h \in Handlers |-> NoCompound]
    /\ calls = [h \in Handlers |-> <<>>]
    /\ concurrent_updates = FALSE

\* a main() without the check of COMPOUNDS
StartupError_without_catalog_check ==
    IF ~Truthy(BOT_TOKEN) THEN "BOT_TOKEN not found"
    ELSE IF ~Truthy(GITHUB_USERNAME) \/ ~Truthy(GITHUB_REPO)
           THEN "GitHub configuration not found"
    ELSE "none"

\* The message main() logs before returning early, or "none" when every
\* check passes.
StartupError ==
    IF ~Truthy(BOT_TOKEN) THEN "BOT_TOKEN not found"
    ELSE IF ~Truthy(GITHUB_USERNAME) \/ ~Truthy(GITHUB_REPO)
           THEN "GitHub configuration not found"
    ELSE IF COMPOUNDS = <<>> THEN "No compounds found"
    ELSE "none"

\* main(): the three checks, then the handlers are registered and polling
\* starts.
main ==
    /\ proc = "imported"
    /\ IF StartupError # "none"
         THEN /\ startup_log' = startup_log \o <<LogError(<<StartupError>>)>>
              /\ proc' = "halted"
         ELSE /\ startup_log' = startup_log
                    \o <<LogInfo(<<"Starting bot", Len(COMPOUNDS)>>),
                         LogInfo(<<"GitHub URL", GITHUB_RAW_URL>>),
                         LogInfo(<<"Bot started successfully">>)>>
              /\ proc' = "serving"
    /\ UNCHANGED <<BOT_TOKEN, GITHUB_USERNAME, GITHUB_REPO, file, COMPOUNDS,
                   pc, update, compound, calls, concurrent_updates>>

\* ------------------------------------------------------------ handlers

env == <<BOT_TOKEN, GITHUB_USERNAME, GITHUB_REPO, proc, startup_log,
         concurrent_updates>>

\* With concurrent_updates off (what Application.builder() leaves it at) the
\* application takes the next update only when the handler of the one before
\* has returned; with it on, a handler may start while others are suspended.
\* A new coroutine takes the lowest free slot.
MayStart(h) ==
    /\ proc = "serving"
    /\ concurrent_updates \/ \A g \in Handlers : pc[g] = "idle"
    /\ pc[h] = "idle"
    /\ \A g \in Handlers : g < h => pc[g] # "idle"

\* the handler makes the calls `entries` and suspends at `label`
Suspend(h, entries, label) ==
    /\ calls' = [calls EXCEPT ![h] = @ \o entries]
    /\ pc' = [pc EXCEPT ![h] = label]

\* an error handler that logs and sends nothing
error_handler_log_only(h, entries, e) ==
    Suspend(h, entries \o <<LogError(<<"Update caused error", update[h], e>>)>>,
            "done")

\* error_handler(update, context): exception e escaped the handler after it
\* made the calls `entries`; the update always carries a message here.
error_handler(h, entries, e) ==
    Suspend(h, entries \o <<LogError(<<"Update caused error", update[h], e>>),
                            Call("effective_message.reply_text", <<"oops">>,
                                 NoMarkup, NoRender)>>,
            "error_reply")

\* a /start that keeps only the page it shows
start_truncating(h) ==
    /\ MayStart(h)
    /\ update' = [update EXCEPT ![h] = CommandUpdate("start")]
    /\ COMPOUNDS' = page_compounds(COMPOUNDS, 0)
    /\ Suspend(h, <<Call("message.reply_text", <<"welcome", Len(COMPOUNDS)>>,
                         create_keyboard(COMPOUNDS, 0), Render(COMPOUNDS, 0))>>,
               "reply")
    /\ UNCHANGED <<env, file, compound>>

\* /start
start(h) ==
    /\ MayStart(h)
    /\ update' = [update EXCEPT ![h] = CommandUpdate("start")]
    /\ Suspend(h, <<Call("message.reply_text", <<"welcome", Len(COMPOUNDS)>>,
                         create_keyboard(COMPOUNDS, 0), Render(COMPOUNDS, 0))>>,
               "reply")
    /\ UNCHANGED <<env, file, COMPOUNDS, compound>>

\* /help
help_command(h) ==
    /\ MayStart(h)
    /\ update' = [update EXCEPT ![h] = CommandUpdate("help")]
    /\ Suspend(h, <<Call("message.reply_text", <<"help">>, NoMarkup, NoRender)>>,
               "reply")
    /\ UNCHANGED <<env, file, COMPOUNDS, compound>>

\* /list
list_command(h) ==
    /\ MayStart(h)
    /\ update' = [update EXCEPT ![h] = CommandUpdate("list")]
    /\ Suspend(h, <<Call("message.reply_text", <<"select">>,
                         create_keyboard(COMPOUNDS, 0), Render(COMPOUNDS, 0))>>,
               "reply")
    /\ UNCHANGED <<env, file, COMPOUNDS, compound>>

\* button_callback up to its first await, query.answer()
button_callback(h, data) ==
    /\ MayStart(h)
    /\ update' = [update EXCEPT ![h] = CallbackUpdate(data)]
    /\ Suspend(h, <<Call("query.answer", <<>>, NoMarkup, NoRender)>>, "answer")
    /\ UNCHANGED <<env, file, COMPOUNDS, compound>>

\* query.answer() raises
AnswerRaises(h) ==
    /\ pc[h] = "answer"
    /\ error_handler(h, <<>>, "TelegramError")
    /\ UNCHANGED <<env, file, COMPOUNDS, update, compound>>

\* data.startswith("page_"): lines 137-144
navigate(h) ==
    LET data == update[h].data
        page == SplitInt(data)
    IN /\ pc[h] = "answer"
       /\ StartsWith(data, PAGE_)
       /\ IF ~page.ok THEN error_handler(h, <<>>, "ValueError")
          ELSE Suspend(h, <<Call("query.edit_message_text", <<"select">>,
                                 create_keyboard(COMPOUNDS, page.value),
                                 Render(COMPOUNDS, page.value))>>,
                       "final_edit")
       /\ UNCHANGED <<env, file, COMPOUNDS, update, compound>>

\* a refresh that keeps the catalog it held when the load returns nothing
reload_or_keep(old, loaded) == IF loaded = <<>> THEN old ELSE loaded

\* a refresh that adds the loaded records to the catalog it held
reload_merging(old, loaded) ==
    old \o SelectSeq(loaded, LAMBDA c : \A i \in 1..Len(old) : old[i] # c)

\* line 149, COMPOUNDS = load_compounds(): the catalog held after a refresh
\* that held `old` and loaded `loaded`
reload(old, loaded) == loaded

\* a refresh that works out the navigation row before it assigns the loaded
\* catalog
refresh_torn(h, f) ==
    LET data == update[h].data
        r    == load_compounds(f)
    IN /\ pc[h] = "answer"
       /\ data = REFRESH
       /\ file' = f
       /\ COMPOUNDS' = r.value
       /\ Suspend(h, r.log
                     \o <<Call("query.edit_message_text",
                               <<"refreshed", Len(COMPOUNDS')>>,
                               compound_rows(COMPOUNDS', 0)
                               \o (IF nav_buttons(COMPOUNDS, 0) # <<>>
                                     THEN <<nav_buttons(COMPOUNDS, 0)>> ELSE <<>>)
                               \o << <<Button("Refresh List", REFRESH)>> >>,
                               Render(COMPOUNDS', 0))>>,
                  "final_edit")
       /\ UNCHANGED <<env, update, compound>>

\* data == "refresh": lines 147-155; f is what compounds.json holds when
\* load_compounds() opens it
refresh(h, f) ==
    LET data == update[h].data
        r    == load_compounds(f)
    IN /\ pc[h] = "answer"
       /\ ~StartsWith(data, PAGE_)
       /\ data = REFRESH
       /\ file' = f
       /\ IF r.raised # "none"
            THEN error_handler(h, r.log, r.raised) /\ UNCHANGED COMPOUNDS
            ELSE /\ COMPOUNDS' = reload(COMPOUNDS, r.value)
                 /\ Suspend(h, r.log
                               \o <<Call("query.edit_message_text",
                                         <<"refreshed", Len(COMPOUNDS')>>,
                                         create_keyboard(COMPOUNDS', 0),
                                         Render(COMPOUNDS', 0))>>,
                            "final_edit")
       /\ UNCHANGED <<env, update, compound>>

\* data.startswith("compound_"): lines 158-171, up to the await of the
\* "preparing" edit
fetch(h) ==
    LET data == update[h].data
        idx  == SplitInt(data)
    IN /\ pc[h] = "answer"
       /\ ~StartsWith(data, PAGE_)
       /\ data # REFRESH
       /\ StartsWith(data, COMPOUND_)
       /\ IF ~idx.ok
            THEN error_handler(h, <<>>, "ValueError") /\ UNCHANGED compound
          ELSE IF idx.value >= Len(COMPOUNDS)
            THEN /\ Suspend(h, <<Call("query.edit_message_text", <<"not_found">>,
                                      NoMarkup, NoRender)>>,
                            "final_edit")
                 /\ UNCHANGED compound
          ELSE IF ~PyIndexOk(COMPOUNDS, idx.value)
            THEN error_handler(h, <<>>, "IndexError") /\ UNCHANGED compound
          ELSE /\ compound' = [compound EXCEPT ![h] = PyIndex(COMPOUNDS, idx.value)]
               /\ Suspend(h, <<Call("query.edit_message_text",
                                    <<"preparing", compound'[h].formula,
                                      compound'[h].name>>,
                                    NoMarkup, NoRender)>>,
                          "loading_edit")
       /\ UNCHANGED <<env, file, COMPOUNDS, update>>

\* a dispatcher with a final else branch that tells the user
ignore_with_notice(h) ==
    LET data == update[h].data
    IN /\ pc[h] = "answer"
       /\ ~StartsWith(data, PAGE_)
       /\ data # REFRESH
       /\ ~StartsWith(data, COMPOUND_)
       /\ Suspend(h, <<Call("query.edit_message_text", <<"unknown_action">>,
                            NoMarkup, NoRender)>>,
                  "final_edit")
       /\ UNCHANGED <<env, file, COMPOUNDS, update, compound>>

\* none of the three branches matches: the handler returns
ignore(h) ==
    LET data == update[h].data
    IN /\ pc[h] = "answer"
       /\ ~StartsWith(data, PAGE_)
       /\ data # REFRESH
       /\ ~StartsWith(data, COMPOUND_)
       /\ pc' = [pc EXCEPT ![h] = "done"]
       /\ UNCHANGED <<env, file, COMPOUNDS, update, compound, calls>>

\* a command's reply or a menu/notice edit returns: the handler is finished,
\* or the call's exception escapes it
FinalCallReturns(h) ==
    /\ pc[h] \in {"reply", "final_edit"}
    /\ \E ok \in BOOLEAN :
          IF ok THEN pc' = [pc EXCEPT ![h] = "done"] /\ UNCHANGED calls
          ELSE error_handler(h, <<>>, "TelegramError")
    /\ UNCHANGED <<env, file, COMPOUNDS, update, compound>>

\* ------------------------------------------------- fetch-and-relay pipeline

\* file_url = GITHUB_RAW_URL + compound['file']
file_url(c) == GITHUB_RAW_URL \o <<c.file>>

\* the "preparing" edit raises, outside the try block
LoadingEditRaises(h) ==
    /\ pc[h] = "loading_edit"
    /\ error_handler(h, <<>>, "TelegramError")
    /\ UNCHANGED <<env, file, COMPOUNDS, update, compound>>

\* lines 182-196: the document sent for record c
send_document(c) ==
    SendDocument(Content(file_url(c)), c.file, <<"caption", c.formula, c.name>>)

\* lines 212-220: except requests.exceptions.RequestException
download_error(c, e) ==
    <<LogError(<<"Error fetching file", e>>),
      Call("loading_msg.edit_text", <<"download_error", c.file>>, NoMarkup, NoRender)>>

\* an except branch that also sends a fresh message after its edit
unexpected_error_with_send(e) ==
    <<LogError(<<"Unexpected error", e>>),
      Call("loading_msg.edit_text", <<"unexpected_error", e>>, NoMarkup, NoRender),
      Call("bot.send_message", <<"unexpected_error", e>>, NoMarkup, NoRender)>>

\* lines 221-228: except Exception
unexpected_error(e) ==
    <<LogError(<<"Unexpected error", e>>),
      Call("loading_msg.edit_text", <<"unexpected_error", e>>, NoMarkup, NoRender)>>

\* a pipeline that handles the selection again from the start when the GET
\* times out
request_retrying_selection(h, outcome) ==
    LET c == compound[h]
        get == <<LogInfo(<<"Fetching", file_url(c)>>), Get(file_url(c), outcome)>>
    IN /\ pc[h] = "loading_edit"
       /\ IF outcome = "Timeout"
            THEN /\ pc' = [pc EXCEPT ![h] = "answer"]
                 /\ calls' = [calls EXCEPT ![h] = <<calls[h][1]>>]
          ELSE IF IsRequestException(outcome)
            THEN Suspend(h, get \o download_error(c, outcome), "error_edit")
            ELSE Suspend(h, get \o <<send_document(c)>>, "send_document")
       /\ UNCHANGED <<env, file, COMPOUNDS, update, compound>>

\* a pipeline without response.raise_for_status(): the body of an error
\* status is relayed like a file
request_without_raise_for_status(h, outcome) ==
    LET c == compound[h]
        get == <<LogInfo(<<"Fetching", file_url(c)>>), Get(file_url(c), outcome)>>
    IN /\ pc[h] = "loading_edit"
       /\ IF outcome \in {"Timeout", "ConnectionError"}
            THEN Suspend(h, get \o download_error(c, outcome), "error_edit")
            ELSE Suspend(h, get \o <<send_document(c)>>, "send_document")
       /\ UNCHANGED <<env, file, COMPOUNDS, update, compound>>

\* a pipeline that looks the record up again after the "preparing" edit
request_rereading(h, outcome) ==
    LET idx == SplitInt(update[h].data).value
        c   == IF PyIndexOk(COMPOUNDS, idx) THEN PyIndex(COMPOUNDS, idx)
               ELSE compound[h]
        get == <<LogInfo(<<"Fetching", file_url(c)>>), Get(file_url(c), outcome)>>
    IN /\ pc[h] = "loading_edit"
       /\ IF IsRequestException(outcome)
            THEN Suspend(h, get \o download_error(c, outcome), "error_edit")
            ELSE Suspend(h, get \o <<send_document(c)>>, "send_document")
       /\ UNCHANGED <<env, file, COMPOUNDS, update, compound>>

\* a pipeline that tries the GET a second time when the first one fails
request_retrying(h, outcome) ==
    LET c == compound[h]
        get == <<LogInfo(<<"Fetching", file_url(c)>>), Get(file_url(c), outcome)>>
    IN /\ pc[h] = "loading_edit"
       /\ IF IsRequestException(outcome)
            THEN Suspend(h, get \o get \o download_error(c, outcome), "error_edit")
            ELSE Suspend(h, get \o <<send_document(c)>>, "send_document")
       /\ UNCHANGED <<env, file, COMPOUNDS, update, compound>>

\* lines 173-196: the "preparing" edit returned; the blocking GET runs and
\* either the document is sent or the RequestException branch is taken
request(h, outcome) ==
    LET c == compound[h]
        get == <<LogInfo(<<"Fetching", file_url(c)>>), Get(file_url(c), outcome)>>
    IN /\ pc[h] = "loading_edit"
       /\ IF IsRequestException(outcome)
            THEN Suspend(h, get \o download_error(c, outcome), "error_edit")
            ELSE Suspend(h, get \o <<send_document(c)>>, "send_document")
       /\ UNCHANGED <<env, file, COMPOUNDS, update, compound>>

\* a pipeline that leaves the "preparing" notice in place
SendDocumentReturns_keeping_notice(h) ==
    /\ pc[h] = "send_document"
    /\ \E ok \in BOOLEAN :
          IF ok THEN Suspend(h, <<Call("bot.send_message", <<"sent", compound[h].name>>,
                                       back_keyboard, NoRender)>>,
                             "send_message")
          ELSE Suspend(h, unexpected_error("TelegramError"), "error_edit")
    /\ UNCHANGED <<env, file, COMPOUNDS, update, compound>>

\* lines 198-199: send_document returned
SendDocumentReturns(h) ==
    /\ pc[h] = "send_document"
    /\ \E ok \in BOOLEAN :
          IF ok THEN Suspend(h, <<Call("loading_msg.delete", <<>>, NoMarkup, NoRender)>>,
                             "delete")
          ELSE Suspend(h, unexpected_error("TelegramError"), "error_edit")
    /\ UNCHANGED <<env, file, COMPOUNDS, update, compound>>

\* lines 201-210: the confirmation with the "Back to List" button
confirmation(c) ==
    Call("bot.send_message", <<"sent", c.name>>, back_keyboard, NoRender)

\* loading_msg.delete() returned
DeleteReturns(h) ==
    /\ pc[h] = "delete"
    /\ \E ok \in BOOLEAN :
          IF ok THEN Suspend(h, <<confirmation(compound[h])>>, "send_message")
          ELSE Suspend(h, unexpected_error("TelegramError"), "error_edit")
    /\ UNCHANGED <<env, file, COMPOUNDS, update, compound>>

\* send_message returned
SendMessageReturns(h) ==
    /\ pc[h] = "send_message"
    /\ \E ok \in BOOLEAN :
          IF ok THEN pc' = [pc EXCEPT ![h] = "done"] /\ UNCHANGED calls
          ELSE Suspend(h, unexpected_error("TelegramError"), "error_edit")
    /\ UNCHANGED <<env, file, COMPOUNDS, update, compound>>

\* loading_msg.delete() of handler h has returned: the handler went on to
\* line 205
NoticeDeleted(h) ==
    \E k \in 1..Len(calls[h]) : calls[h][k].op = "bot.send_message"

\* the edit made in an except branch returned; its exception escapes.  An
\* edit of a message that was deleted cannot succeed.
ErrorEditReturns(h) ==
    /\ pc[h] = "error_edit"
    /\ \E ok \in BOOLEAN :
          IF ok /\ ~NoticeDeleted(h)
            THEN pc' = [pc EXCEPT ![h] = "done"] /\ UNCHANGED calls
            ELSE error_handler(h, <<>>, "TelegramError")
    /\ UNCHANGED <<env, file, COMPOUNDS, update, compound>>

\* the error handler's reply returned (an exception of it is only logged by
\* the application)
ErrorReplyReturns(h) ==
    /\ pc[h] = "error_reply"
    /\ pc' = [pc EXCEPT ![h] = "done"]
    /\ UNCHANGED <<env, file, COMPOUNDS, update, compound, calls>>

\* the coroutine has returned: its locals are gone
Finish(h) ==
    /\ pc[h] = "done"
    /\ pc' = [pc EXCEPT ![h] = "idle"]
    /\ update' = [update EXCEPT ![h] = NoUpdate]
    /\ compound' = [compound EXCEPT ![h] = NoCompound]
    /\ calls' = [calls EXCEPT ![h] = <<>>]
    /\ UNCHANGED <<env, file, COMPOUNDS>>

\* ------------------------------------------------------------ specification

Next ==
    \/ main
    \/ \E h \in Handlers : start(h)
    \/ \E h \in Handlers : help_command(h)
    \/ \E h \in Handlers : list_command(h)
    \/ \E h \in Handlers, data \in Tokens : button_callback(h, data)
    \/ \E h \in Handlers : AnswerRaises(h)
    \/ \E h \in Handlers : navigate(h)
    \/ \E h \in Handlers, f \in FileContents : refresh(h, f)
    \/ \E h \in Handlers : fetch(h)
    \/ \E h \in Handlers : ignore(h)
    \/ \E h \in Handlers : FinalCallReturns(h)
    \/ \E h \in Handlers : LoadingEditRaises(h)
    \/ \E h \in Handlers, outcome \in HttpOutcomes : request(h, outcome)
    \/ \E h \in Handlers : SendDocumentReturns(h)
    \/ \E h \in Handlers : DeleteReturns(h)
    \/ \E h \in Handlers : SendMessageReturns(h)
    \/ \E h \in Handlers : ErrorEditReturns(h)
    \/ \E h \in Handlers : ErrorReplyReturns(h)
    \/ \E h \in Handlers : Finish(h)

Spec == Init /\ [][Next]_vars

\* ------------------------------------------ a smaller universe of inputs

\* Two catalogs of different page counts and a missing file; tokens the menus
\* of those catalogs carry, a token without an integer, one whose index lies
\* below -N, and one of an unknown prefix; a GET that succeeds or times out.
FewFiles ==
    {[kind |-> "missing", compounds |-> <<>>],
     [kind |-> "ok", compounds |-> Catalog(1, ITEMS_PER_PAGE + 2)],
     [kind |-> "ok", compounds |-> Catalog(2, 3)]}

FewTokens ==
    {PAGE_ \o PyStr(1), REFRESH, COMPOUND_ \o PyStr(0),
     COMPOUND_ \o PyStr(ITEMS_PER_PAGE + 1), <<"n", "o", "o", "p">>,
     PAGE_, COMPOUND_ \o PyStr(-(ITEMS_PER_PAGE + 3))}

FewOutcomes == {"200", "Timeout"}

\* the state after the module body has run with all three settings present,
\* in an application whose concurrent_updates setting is `concurrent`
InitFew(concurrent) ==
    /\ BOT_TOKEN = Str("set")
    /\ GITHUB_USERNAME = Str("set")
    /\ GITHUB_REPO = Str("set")
    /\ file \in FewFiles
    /\ COMPOUNDS = load_compounds(file).value
    /\ startup_log = load_compounds(file).log
    /\ proc = "imported"
    /\ pc = [h \in Handlers |-> "idle"]
    /\ update = [h \in Handlers |-> NoUpdate]
    /\ compound = [h \in Handlers |-> NoCompound]
    /\ calls = [h \in Handlers |-> <<>>]
    /\ concurrent_updates = concurrent

\* The coroutine of handler h is resumed: the call it awaits has returned or
\* raised, and it runs to its next await or to its end.
Resume(h) ==
    \/ AnswerRaises(h)
    \/ navigate(h)
    \/ \E f \in FewFiles : refresh(h, f)
    \/ fetch(h)
    \/ ignore(h)
    \/ FinalCallReturns(h)
    \/ LoadingEditRaises(h)
    \/ \E outcome \in FewOutcomes : request(h, outcome)
    \/ SendDocumentReturns(h)
    \/ DeleteReturns(h)
    \/ SendMessageReturns(h)
    \/ ErrorEditReturns(h)
    \/ ErrorReplyReturns(h)
    \/ Finish(h)

NextFew ==
    \/ main
    \/ \E h \in Handlers : start(h)
    \/ \E h \in Handlers : help_command(h)
    \/ \E h \in Handlers : list_command(h)
    \/ \E h \in Handlers, data \in FewTokens : button_callback(h, data)
    \/ \E h \in Handlers : Resume(h)

\* The application with concurrent_updates switched on: a handler may start
\* while another is suspended at an await.
InitConcurrent == InitFew(TRUE)

SpecConcurrent == InitConcurrent /\ [][NextFew]_vars

\* The application as bot.py builds it, one update at a time.  Every awaited
\* call returns or raises (the GET has a timeout), and the event loop then
\* resumes the coroutine that awaits it.
InitSequential == InitFew(FALSE)

SpecFair ==
    InitSequential /\ [][NextFew]_vars /\ \A h \in Handlers : WF_vars(Resume(h))

\* ------------------------------------------------------------ observations

\* ceil(n / p), computed without the rounding trick of total_pages
CeilDiv(n, p) == IF n % p = 0 THEN n \div p ELSE (n \div p) + 1

\* positions of handler h's log that hold a call with operation op
CallsOf(h, op) == {k \in 1..Len(calls[h]) : calls[h][k].op = op}

\* positions of handler h's log that hold a rendered menu
Menus(h) ==
    {k \in 1..Len(calls[h]) :
        /\ calls[h][k].op \in {"message.reply_text", "query.edit_message_text"}
        /\ calls[h][k].rendered.menu}

\* the buttons of a keyboard, row after row
RECURSIVE Flatten(_)
Flatten(rows) == IF rows = <<>> THEN <<>> ELSE Head(rows) \o Flatten(Tail(rows))

\* the keyboard has a button whose text is label
HasButton(rows, label) ==
    \E r \in 1..Len(rows) : \E j \in 1..Len(rows[r]) : rows[r][j].text = label

\* the compound buttons of a keyboard, in order
CompoundButtons(rows) ==
    SelectSeq(Flatten(rows), LAMBDA b : StartsWith(b.callback_data, COMPOUND_))

\* the label create_keyboard gives record c
Label(c) == <<c.formula, " - ", c.name>>

\* handler h is handling a compound_<int> token whose integer parses
IsFetch(h) ==
    /\ update[h].kind = "callback_query"
    /\ StartsWith(update[h].data, COMPOUND_)
    /\ SplitInt(update[h].data).ok

\* the exception (if any) that reached error_handler from handler h
Escaped(h) ==
    {calls[h][k].text[3] : k \in
        {j \in CallsOf(h, "logger.error") : calls[h][j].text[1] = "Update caused error"}}

\* handler h has dispatched on its token: query.answer() returned
Dispatched(h) ==
    /\ update[h].kind = "callback_query"
    /\ pc[h] \notin {"idle", "answer"}
    /\ ~(Len(calls[h]) >= 2 /\ calls[h][2].op = "logger.error"
         /\ calls[h][2].text[1] = "Update caused error"
         /\ calls[h][2].text[3] = "TelegramError")

\* --------------------------------------------------------------------- C1

\* C1: a compound_<int> token with 0 <= index < N leads to exactly one GET, to
\* base + catalog[index].file (once the "preparing" edit has returned, and
\* never more than one); any other index, negative ones included, leads to no
\* GET and to the "not found" edit.
C1_FetchBounds ==
    \A h \in Handlers :
        (IsFetch(h) /\ Dispatched(h)) =>
            LET idx  == SplitInt(update[h].data).value
                gets == CallsOf(h, "requests.get")
            IN IF 0 <= idx /\ idx < Len(COMPOUNDS)
                 THEN /\ Cardinality(gets) <= 1
                      /\ \A k \in gets :
                            calls[h][k].url = GITHUB_RAW_URL \o <<COMPOUNDS[idx + 1].file>>
                      /\ (pc[h] \in {"send_document", "delete", "send_message", "error_edit"})
                            => Cardinality(gets) = 1
                 ELSE /\ gets = {}
                      /\ calls[h][2].op = "query.edit_message_text"
                      /\ calls[h][2].text = <<"not_found">>

\* --------------------------------------------------------------------- C2

\* the labels of the compound buttons of a keyboard, in order
Labels(rows) ==
    LET bs == CompoundButtons(rows) IN [k \in 1..Len(bs) |-> bs[k].text]

\* the labels shown on pages 0 .. last of the catalog, joined
RECURSIVE PagesJoined(_, _)
PagesJoined(catalog, last) ==
    IF last < 0 THEN <<>>
    ELSE PagesJoined(catalog, last - 1) \o Labels(create_keyboard(catalog, last))

\* C2: the catalog held has ceil(N/P) pages: every page below the last shows P
\* records, the last shows N mod P (P when that is 0), the page after the last
\* shows none, and the pages joined in order are the catalog in its order.
C2_Pagination ==
    LET N    == Len(COMPOUNDS)
        last == CeilDiv(N, ITEMS_PER_PAGE) - 1
        size(p) == Len(CompoundButtons(create_keyboard(COMPOUNDS, p)))
    IN /\ \A p \in 0..(last - 1) : size(p) = ITEMS_PER_PAGE
       /\ last >= 0 => size(last) = (IF N % ITEMS_PER_PAGE = 0 THEN ITEMS_PER_PAGE
                                     ELSE N % ITEMS_PER_PAGE)
       /\ size(last + 1) = 0
       /\ PagesJoined(COMPOUNDS, last) = [i \in 1..N |-> Label(COMPOUNDS[i])]

\* a menu of the last, partly filled page of a three-page catalog was rendered
C2_Witness ==
    \E h \in Handlers : \E k \in Menus(h) :
        /\ calls[h][k].rendered.page = 2
        /\ calls[h][k].rendered.catalog = COMPOUNDS
        /\ Len(COMPOUNDS) = 2 * ITEMS_PER_PAGE + 1
        /\ Len(CompoundButtons(calls[h][k].reply_markup)) = 1

\* --------------------------------------------------------------------- C3

\* C3: in every rendered menu "Previous" is absent exactly when page = 0 and
\* "Next" is absent exactly when page is the last page, ceil(N/P) - 1.
C3_NavigationControls ==
    \A h \in Handlers : \A k \in Menus(h) :
        LET m == calls[h][k]
        IN /\ ~HasButton(m.reply_markup, "Previous") <=> (m.rendered.page = 0)
           /\ ~HasButton(m.reply_markup, "Next")
                 <=> (m.rendered.page = CeilDiv(Len(m.rendered.catalog), ITEMS_PER_PAGE) - 1)

\* --------------------------------------------------------------------- C4

\* C4: every rendered menu shows a page with 0 <= page < ceil(len(catalog)/P)
\* for the catalog held when it was rendered.
C4_PageViewBound ==
    \A h \in Handlers : \A k \in Menus(h) :
        LET m == calls[h][k]
        IN /\ 0 <= m.rendered.page
           /\ m.rendered.page < CeilDiv(Len(m.rendered.catalog), ITEMS_PER_PAGE)

\* --------------------------------------------------------------------- C5

\* what a load of a file holding f should yield: its list, or nothing
Loaded(f) == IF f.kind = "ok" THEN f.compounds ELSE <<>>

\* handler h is handling a refresh token and has dispatched on it
Refreshed(h) == Dispatched(h) /\ update[h].data = REFRESH

\* C5: once a refresh token is handled the catalog is exactly the freshly
\* loaded sequence, and the one menu edit made in response reports its
\* length and shows its first page: the first min(N, P) records, no
\* "Previous".
C5_RefreshReplaces ==
    \A h \in Handlers :
        Refreshed(h) =>
            LET new   == Loaded(file)
                edits == CallsOf(h, "query.edit_message_text")
            IN /\ COMPOUNDS = new
               /\ Cardinality(edits) = 1
               /\ \A k \in edits :
                     /\ calls[h][k].text = <<"refreshed", Len(new)>>
                     /\ Labels(calls[h][k].reply_markup)
                           = [i \in 1..Min(Len(new), ITEMS_PER_PAGE) |-> Label(new[i])]
                     /\ ~HasButton(calls[h][k].reply_markup, "Previous")
                     /\ calls[h][k].rendered = [menu |-> TRUE, page |-> 0, catalog |-> new]

\* a refresh was handled that loaded a two-page catalog
C5_Witness ==
    \E h \in Handlers :
        /\ Refreshed(h)
        /\ pc[h] = "done"
        /\ file.kind = "ok"
        /\ Len(COMPOUNDS) = ITEMS_PER_PAGE + 2
        /\ COMPOUNDS[1] = Rec(2, 1)

\* --------------------------------------------------------------------- C6

\* handler h takes the refresh branch in this step (query.answer() has
\* returned) and the load fails
FailedRefreshStep(h) ==
    /\ pc[h] = "answer"
    /\ update[h].data = REFRESH
    /\ pc'[h] # "answer"
    /\ calls'[h][Len(calls'[h]) - 1]
          # LogError(<<"Update caused error", update[h], "TelegramError">>)
    /\ file'.kind # "ok"

\* C6 as claimed: a refresh whose load fails leaves the catalog as it was held
\* before.
C6_FailedRefreshKeepsCatalog ==
    [][\A h \in Handlers : FailedRefreshStep(h) => COMPOUNDS' = COMPOUNDS]_vars

\* C6 as amended: a refresh whose load fails is tolerated (the handler goes on
\* to its menu edit, which reports 0 compounds) and leaves the catalog empty,
\* whatever was held before.
C6_FailedRefreshEmptiesCatalog ==
    [][\A h \in Handlers :
          FailedRefreshStep(h)
          => /\ COMPOUNDS' = <<>>
             /\ pc'[h] = "final_edit"
             /\ calls'[h][Len(calls'[h])].op = "query.edit_message_text"
             /\ calls'[h][Len(calls'[h])].text = <<"refreshed", 0>>]_vars

\* a refresh whose load failed has been handled and the catalog is empty
C6_Witness ==
    \E h \in Handlers :
        /\ Refreshed(h)
        /\ file.kind = "missing"
        /\ COMPOUNDS = <<>>
        /\ pc[h] = "done"

\* --------------------------------------------------------------------- C7

LoadExceptions == {"FileNotFoundError", "JSONDecodeError", "KeyError"}

\* the log holds the error load_compounds reports for file content f
LogsLoadError(log, f) ==
    \E k \in 1..Len(log) :
        /\ log[k].op = "logger.error"
        /\ log[k].text = <<"Error loading compounds.json", LoadException(f)>>

AllConfigured == Truthy(BOT_TOKEN) /\ Truthy(GITHUB_USERNAME) /\ Truthy(GITHUB_REPO)

\* C8: the process serves only with all three settings present and a
\* non-empty initial catalog (main logged its length); otherwise it has
\* logged an error and halted, and no handler ever ran.
C8_StartupGate ==
    /\ proc = "serving" =>
          /\ AllConfigured
          /\ \E k \in 1..Len(startup_log) :
                /\ startup_log[k].op = "logger.info"
                /\ startup_log[k].text[1] = "Starting bot"
                /\ startup_log[k].text[2] > 0
    /\ proc = "halted" =>
          /\ ~(AllConfigured /\ COMPOUNDS # <<>>)
          /\ startup_log[Len(startup_log)].op = "logger.error"
    /\ proc # "serving" =>
          \A h \in Handlers : pc[h] = "idle" /\ calls[h] = <<>> /\ update[h] = NoUpdate

\* the process halted because the data file was not JSON
C8_Witness ==
    /\ proc = "halted"
    /\ AllConfigured
    /\ file.kind = "malformed_json"

\* ---------------------------------------------------------------- C9, C10

\* the outward events of handler h: its calls to the chat transport after
\* query.answer(), and its HTTP requests, in order
Events(h) ==
    SelectSeq(calls[h],
              LAMBDA e : e.op \notin {"logger.error", "logger.info", "query.answer"})

\* handler h has dispatched on a compound_<int> token with 0 <= int < N
InRangeFetch(h) ==
    /\ IsFetch(h)
    /\ Dispatched(h)
    /\ SplitInt(update[h].data).value \in 0..(Len(COMPOUNDS) - 1)

\* the record an in-range token of handler h selects
Selected(h) == COMPOUNDS[SplitInt(update[h].data).value + 1]

\* how the GETs of handler h ended
GetOutcomes(h) == {calls[h][k].outcome : k \in CallsOf(h, "requests.get")}

\* the interim "preparing" edit for record c
Preparing(c) ==
    Call("query.edit_message_text", <<"preparing", c.formula, c.name>>, <<>>, NoRender)

\* the events of a relay of record c that succeeds
SuccessEvents(c) ==
    LET url == GITHUB_RAW_URL \o <<c.file>>
    IN <<Preparing(c),
         [op |-> "requests.get", url |-> url, timeout |-> GetTimeout, outcome |-> "200"],
         [op |-> "bot.send_document", document |-> <<"bytes at", url>>,
          filename |-> c.file, caption |-> <<"caption", c.formula, c.name>>],
         Call("loading_msg.delete", <<>>, <<>>, NoRender),
         Call("bot.send_message", <<"sent", c.name>>,
              << <<[text |-> "Back to List",
                    callback_data |-> <<"p", "a", "g", "e", "_", "0">>]>> >>,
              NoRender)>>

\* C9: after an in-range fetch whose GET returned 2xx the outward events are,
\* in this order and once each: the "preparing" edit, the GET, the document
\* named record.file, the deletion of the notice, the confirmation with the
\* one page_0 button.  While the relay is under way they are a prefix of that
\* (at least up to the document); a transport call that raises ends the
\* prefix and only error notices follow.
C9_SuccessOrdering ==
    \A h \in Handlers :
        (InRangeFetch(h) /\ "200" \in GetOutcomes(h)) =>
            LET ev == Events(h)
                E  == SuccessEvents(Selected(h))
            IN /\ \E n \in 3..5 :
                     /\ Len(ev) >= n
                     /\ SubSeq(ev, 1, n) = SubSeq(E, 1, n)
                     /\ \A k \in (n + 1)..Len(ev) :
                           ev[k].op \in {"loading_msg.edit_text",
                                         "effective_message.reply_text"}
               /\ pc[h] = "delete" => Len(ev) = 4 /\ ev[4] = E[4]
               /\ pc[h] = "send_message" => ev = E
               /\ (pc[h] = "done" /\ CallsOf(h, "loading_msg.edit_text") = {}) => ev = E

\* a relay of the first record of the second page ran to its confirmation
C9_Witness ==
    \E h \in Handlers :
        /\ InRangeFetch(h)
        /\ SplitInt(update[h].data).value = ITEMS_PER_PAGE
        /\ pc[h] = "done"
        /\ Events(h) = SuccessEvents(COMPOUNDS[ITEMS_PER_PAGE + 1])

\* C10: after an in-range fetch whose GET failed (HTTP error status, timeout,
\* connection error) the outward events are the "preparing" edit, that one
\* GET, and the edit of the notice into the failure message naming
\* record.file; no document and no confirmation are sent; only the error
\* handler's notice can follow, when that last edit raised.
C10_DownloadFailure ==
    \A h \in Handlers :
        (InRangeFetch(h) /\ GetOutcomes(h) \ {"200"} # {}) =>
            LET ev == Events(h)
                c  == Selected(h)
            IN /\ Cardinality(CallsOf(h, "requests.get")) = 1
               /\ Len(ev) >= 3
               /\ ev[1] = Preparing(c)
               /\ ev[2].op = "requests.get"
               /\ ev[2].url = GITHUB_RAW_URL \o <<c.file>>
               /\ ev[3] = Call("loading_msg.edit_text", <<"download_error", c.file>>,
                               <<>>, NoRender)
               /\ CallsOf(h, "bot.send_document") = {}
               /\ CallsOf(h, "bot.send_message") = {}
               /\ Len(ev) > 3 =>
                     /\ Len(ev) = 4
                     /\ ev[4].op = "effective_message.reply_text"
                     /\ Escaped(h) = {"TelegramError"}

\* a fetch whose GET timed out ended with the failure message
C10_Witness ==
    \E h \in Handlers :
        /\ InRangeFetch(h)
        /\ GetOutcomes(h) = {"Timeout"}
        /\ pc[h] = "done"
        /\ Len(Events(h)) = 3
        /\ Events(h)[3].text = <<"download_error", Selected(h).file>>

\* -------------------------------------------------------------------- C11

\* the relay of handler h got a 2xx response and then ended otherwise than
\* with its confirmation delivered
FailedRelay(h) ==
    /\ InRangeFetch(h)
    /\ "200" \in GetOutcomes(h)
    /\ pc[h] \in {"error_edit", "error_reply", "done"}
    /\ ~(pc[h] = "done" /\ Events(h) = SuccessEvents(Selected(h)))

\* the edit of the notice into the generic error message with text e
GenericError(e) ==
    Call("loading_msg.edit_text", <<"unexpected_error", e>>, <<>>, NoRender)

\* C11: when the document send, the deletion of the notice or the
\* confirmation send fails, the next outward call is the edit of the interim
\* notice into the generic error message carrying the exception text, and the
\* notice is still there to be replaced.
C11_UnexpectedFailure ==
    \A h \in Handlers :
        FailedRelay(h) =>
            LET ev == Events(h)
                E  == SuccessEvents(Selected(h))
            IN \E n \in 3..5 :
                  /\ Len(ev) > n
                  /\ SubSeq(ev, 1, n) = SubSeq(E, 1, n)
                  /\ ev[n + 1] = GenericError("TelegramError")
                  /\ \A k \in 1..n : ev[k].op # "loading_msg.delete" \/ k = n

\* -------------------------------------------------------------------- C12

\* the calls handler h itself made to the chat transport after
\* query.answer(), without the reply of the top-level error handler
Transport(h) ==
    SelectSeq(Events(h),
              LAMBDA e : e.op \notin {"requests.get", "effective_message.reply_text"})

\* the step of handling a selection that a transport call belongs to
StepOf(e) ==
    CASE e.op = "query.edit_message_text" /\ e.text[1] = "select" -> "navigate"
      [] e.op = "query.edit_message_text" /\ e.text[1] = "refreshed" -> "refresh"
      [] e.op = "query.edit_message_text" /\ e.text[1] = "not_found" -> "not_found"
      [] e.op = "query.edit_message_text" /\ e.text[1] = "preparing" -> "step1"
      [] e.op \in {"bot.send_document", "loading_msg.delete", "bot.send_message"}
            -> "step3"
      [] e.op = "loading_msg.edit_text" /\ e.text[1] = "download_error" -> "step4"
      [] e.op = "loading_msg.edit_text" /\ e.text[1] = "unexpected_error" -> "step5"
      [] OTHER -> "other"

\* the operations of the transport calls of handler h that belong to step
StepCalls(h, step) ==
    LET t == SelectSeq(Transport(h), LAMBDA e : StepOf(e) = step)
    IN [k \in 1..Len(t) |-> t[k].op]

\* C12 as claimed: every step of handling a selection (navigate, refresh,
\* not-found, each step of the pipeline) makes one call to the chat transport,
\* and a fetch makes one HTTP call.
C12_OneCallPerStep ==
    \A h \in Handlers :
        Dispatched(h) =>
            /\ \A step \in {"navigate", "refresh", "not_found", "step1", "step3",
                             "step4", "step5"} : Len(StepCalls(h, step)) <= 1
            /\ Cardinality(CallsOf(h, "requests.get")) <= 1

\* C12 as amended: after the one query.answer(), navigate, refresh and
\* not-found make exactly one edit; the pipeline makes exactly one "preparing"
\* edit, then exactly one GET once that edit returned; after a 2xx response
\* step 3 makes up to three transport calls in order (document, deletion of
\* the notice, confirmation; all three when none raises); a failure branch
\* makes exactly one edit of the notice; nothing else is called except the
\* error handler's reply.
C12_OutwardCalls ==
    \A h \in Handlers :
        Dispatched(h) =>
            LET data  == update[h].data
                idx   == SplitInt(data).value
                N     == Len(COMPOUNDS)
                t     == Transport(h)
                gets  == CallsOf(h, "requests.get")
                relay == <<"bot.send_document", "loading_msg.delete", "bot.send_message">>
                one(step) == Len(t) = 1 /\ StepOf(t[1]) = step /\ gets = {}
            IN /\ CallsOf(h, "query.answer") = {1}
               /\ \A k \in 1..Len(t) : StepOf(t[k]) # "other"
               /\ (StartsWith(data, PAGE_) /\ SplitInt(data).ok) => one("navigate")
               /\ data = REFRESH => one("refresh")
               /\ (IsFetch(h) /\ idx >= N) => one("not_found")
               /\ (IsFetch(h) /\ -N <= idx /\ idx < N) =>
                     /\ Len(t) >= 1
                     /\ StepOf(t[1]) = "step1"
                     /\ Len(StepCalls(h, "step1")) = 1
                     /\ Cardinality(gets) <= 1
                     /\ pc[h] \in {"send_document", "delete", "send_message", "error_edit"}
                           => Cardinality(gets) = 1
                     /\ Len(t) > 1 => Cardinality(gets) = 1
                     /\ GetOutcomes(h) = {"200"} =>
                           /\ \E n \in 1..3 : StepCalls(h, "step3") = SubSeq(relay, 1, n)
                           /\ Len(StepCalls(h, "step4")) = 0
                           /\ Len(StepCalls(h, "step5")) <= 1
                           /\ (pc[h] = "done" /\ Escaped(h) = {}
                                /\ Len(StepCalls(h, "step5")) = 0)
                                 => StepCalls(h, "step3") = relay
                           /\ pc[h] = "error_edit" => Len(StepCalls(h, "step5")) = 1
                     /\ GetOutcomes(h) \ {"200"} # {} =>
                           /\ Len(StepCalls(h, "step3")) = 0
                           /\ Len(StepCalls(h, "step4")) = 1
                           /\ Len(StepCalls(h, "step5")) = 0

\* a relay ran to its end: step 3 made its three transport calls
C12_Witness ==
    \E h \in Handlers :
        /\ InRangeFetch(h)
        /\ pc[h] = "done"
        /\ Len(StepCalls(h, "step3")) = 3
        /\ Len(Transport(h)) = 4
        /\ Cardinality(CallsOf(h, "requests.get")) = 1

\* -------------------------------------------------------------------- C13

\* the records page `page` (>= 0) of catalog v shows
SliceOf(v, page) ==
    [i \in 1..Max(0, Min(ITEMS_PER_PAGE, Len(v) - page * ITEMS_PER_PAGE)) |->
        v[page * ITEMS_PER_PAGE + i]]

\* the keyboard is the menu of page `page` of the one catalog v: its compound
\* buttons are that page's records and its navigation row fits v's page count
IsMenuOf(rows, v, page) ==
    /\ Labels(rows) = [i \in 1..Len(SliceOf(v, page)) |-> Label(SliceOf(v, page)[i])]
    /\ HasButton(rows, "Previous") <=> page > 0
    /\ HasButton(rows, "Next") <=> page + 1 < CeilDiv(Len(v), ITEMS_PER_PAGE)

\* the page the update of handler h asks for after this step
AskedPage(h) ==
    IF update'[h].kind = "callback_query" /\ StartsWith(update'[h].data, PAGE_)
      THEN SplitInt(update'[h].data).value ELSE 0

\* handler h does its bounds check and lookup in this step
FetchCheckStep(h) ==
    /\ pc[h] = "answer"
    /\ IsFetch(h)
    /\ pc'[h] \in {"final_edit", "loading_edit"}

\* C13: with handlers interleaved at their awaits, every menu a step renders
\* is the menu of one catalog version, the one held before the step or the
\* one held after it (slice and navigation row from the same one), and every
\* bounds check with its lookup uses one such version.
C13_OneCatalogVersion ==
    [][\A h \in Handlers :
          /\ \A k \in (Len(calls[h]) + 1)..Len(calls'[h]) :
                (/\ calls'[h][k].op \in {"message.reply_text", "query.edit_message_text"}
                 /\ calls'[h][k].rendered.menu)
                => \E v \in {COMPOUNDS, COMPOUNDS'} :
                      IsMenuOf(calls'[h][k].reply_markup, v, AskedPage(h))
          /\ FetchCheckStep(h) =>
                LET idx  == SplitInt(update[h].data).value
                    last == calls'[h][Len(calls'[h])]
                IN \E v \in {COMPOUNDS, COMPOUNDS'} :
                      IF idx >= Len(v)
                        THEN /\ last.text = <<"not_found">>
                             /\ compound'[h] = NoCompound
                        ELSE /\ PyIndexOk(v, idx)
                             /\ compound'[h] = PyIndex(v, idx)
                             /\ last.text = <<"preparing", PyIndex(v, idx).formula,
                                              PyIndex(v, idx).name>>]_vars

\* a handler that rendered page 1 of the ten-record catalog is still
\* suspended at its edit while another has replaced the catalog by the
\* three-record one and rendered page 0 of that
C13_Witness ==
    \E a, b \in Handlers :
        /\ a # b
        /\ pc[a] = "final_edit"
        /\ \E k \in Menus(a) :
              IsMenuOf(calls[a][k].reply_markup, Catalog(1, ITEMS_PER_PAGE + 2), 1)
        /\ update[b].data = REFRESH
        /\ pc[b] = "final_edit"
        /\ COMPOUNDS = Catalog(2, 3)
        /\ \E k \in Menus(b) : IsMenuOf(calls[b][k].reply_markup, COMPOUNDS, 0)

\* -------------------------------------------------------------------- C14

\* the token is not "refresh" and starts with neither "page_" nor "compound_"
UnknownToken(data) ==
    /\ data # <<"r", "e", "f", "r", "e", "s", "h">>
    /\ ~(Len(data) >= 5 /\ SubSeq(data, 1, 5) = <<"p", "a", "g", "e", "_">>)
    /\ ~(Len(data) >= 9
         /\ SubSeq(data, 1, 9) = <<"c", "o", "m", "p", "o", "u", "n", "d", "_">>)

\* query.answer() of handler h raises in this step
AnswerRaisedStep(h) ==
    /\ pc[h] = "answer"
    /\ pc'[h] = "error_reply"
    /\ Len(calls'[h]) = Len(calls[h]) + 2
    /\ calls'[h][Len(calls[h]) + 1]
          = LogError(<<"Update caused error", update[h], "TelegramError">>)

\* C14: once query.answer() has returned, a token that is not "refresh" and
\* starts with neither "page_" nor "compound_" ends the handler at once: no
\* edit, send or delete, no GET, no error notice (the log holds the answer
\* call alone) and the catalog and the data file are left as they were.
C14_UnknownTokenIgnored ==
    [][\A h \in Handlers :
          (/\ pc[h] = "answer"
           /\ UnknownToken(update[h].data)
           /\ pc'[h] # "answer"
           /\ ~AnswerRaisedStep(h))
          => /\ pc'[h] = "done"
             /\ calls'[h] = <<Call("query.answer", <<>>, <<>>, NoRender)>>
             /\ COMPOUNDS' = COMPOUNDS
             /\ file' = file
             /\ compound' = compound]_vars

\* the token "refresh_" was answered and ignored
C14_Witness ==
    \E h \in Handlers :
        /\ update[h] = CallbackUpdate(<<"r", "e", "f", "r", "e", "s", "h", "_">>)
        /\ pc[h] = "done"
        /\ calls[h] = <<Call("query.answer", <<>>, <<>>, NoRender)>>
        /\ COMPOUNDS # <<>>

\* -------------------------------------------------------------------- C15

\* the token of handler h names a branch but carries no integer
ParseFails(h) ==
    /\ update[h].kind = "callback_query"
    /\ \/ StartsWith(update[h].data, PAGE_)
       \/ StartsWith(update[h].data, COMPOUND_)
    /\ ~PyInt(Split(update[h].data, "_")[2]).ok

\* what the top-level handler logs and sends for exception e of handler h
Caught(h, e) ==
    <<[op |-> "logger.error", text |-> <<"Update caused error", update[h], e>>],
      Call("effective_message.reply_text", <<"oops">>, <<>>, NoRender)>>

\* C15: a handler suspended at an await either goes on or has its exception
\* caught by the top-level handler, which logs it with the update and sends
\* the generic notice; that holds for an exception of an edit made in an
\* except branch of the pipeline, and a token without an integer always ends
\* there with a ValueError; the handler then finishes and the process goes on
\* serving.
C15_TopLevelHandler ==
    [][\A h \in Handlers :
          (pc[h] \notin {"idle", "done"} /\ pc'[h] # pc[h]) =>
             /\ proc' = "serving"
             /\ pc'[h] # "idle"
             /\ pc'[h] = "error_reply" =>
                   \E e \in {"TelegramError", "ValueError", "IndexError"} :
                       calls'[h] = calls[h] \o Caught(h, e)
             /\ pc[h] = "error_edit" => pc'[h] \in {"done", "error_reply"}
             /\ (pc[h] = "answer" /\ ParseFails(h) /\ ~AnswerRaisedStep(h)) =>
                   calls'[h] = calls[h] \o Caught(h, "ValueError")
             /\ pc[h] = "error_reply" => pc'[h] = "done" /\ calls'[h] = calls[h]]_vars

\* the edit of the download-failure branch raised; the top-level handler
\* logged it, sent its notice, and the process serves on
C15_Witness ==
    \E h \in Handlers :
        /\ pc[h] = "done"
        /\ proc = "serving"
        /\ Len(StepCalls(h, "step4")) = 1
        /\ Len(calls[h]) >= 2
        /\ SubSeq(calls[h], Len(calls[h]) - 1, Len(calls[h])) = Caught(h, "TelegramError")

\* -------------------------------------------------------------------- C16

\* handler h takes the refresh branch in this step and goes on to its edit
RefreshStep(h) ==
    /\ pc[h] = "answer"
    /\ update[h].data = <<"r", "e", "f", "r", "e", "s", "h">>
    /\ pc'[h] = "final_edit"
    /\ calls'[h][Len(calls'[h])].text = <<"refreshed", Len(COMPOUNDS')>>

\* C16: the catalog changes only in the step that takes the refresh branch;
\* main(), /start, /help, /list, navigate, every step of a fetch, an ignored
\* token and the error handler leave it as it is.
C16_OnlyRefreshWrites ==
    [][COMPOUNDS' # COMPOUNDS => \E h \in Handlers : RefreshStep(h)]_vars

\* a /start, and a relay that ran to its end, on a two-page catalog that is
\* still the one the data file holds
C16_Witness ==
    \E h \in Handlers :
        /\ pc[h] = "done"
        /\ \/ update[h].kind = "start"
           \/ InRangeFetch(h) /\ Len(StepCalls(h, "step3")) = 3
        /\ Len(COMPOUNDS) > ITEMS_PER_PAGE
        /\ COMPOUNDS = Loaded(file)

\* -------------------------------------------------------------------- C17

\* the page the update of handler h asks for
PageOf(h) ==
    IF update[h].kind = "callback_query" /\ StartsWith(update[h].data, PAGE_)
      THEN SplitInt(update[h].data).value ELSE 0

\* the branch of button_callback a token is dispatched to
Branch(data) ==
    IF StartsWith(data, <<"p", "a", "g", "e", "_">>) THEN "navigate"
    ELSE IF data = <<"r", "e", "f", "r", "e", "s", "h">> THEN "refresh"
    ELSE IF StartsWith(data, <<"c", "o", "m", "p", "o", "u", "n", "d", "_">>) THEN "fetch"
    ELSE "ignore"

\* the buttons of a keyboard with this text
ButtonsWith(rows, label) ==
    SelectSeq(Flatten(rows), LAMBDA b : b.text = label)

\* C17: in a menu rendered for a page p with 0 <= p < ceil(N/P), the compound
\* button at position k carries a token that is dispatched to the fetch
\* branch and decoded there to p*P + k, an index in [0, N) of the record whose
\* formula and name are the button's label; the tokens of "Previous" and
\* "Next" are dispatched to the navigate branch and decoded to p - 1 and
\* p + 1, both pages in [0, ceil(N/P)).
C17_TokenRoundTrip ==
    \A h \in Handlers : \A m \in Menus(h) :
        LET p     == PageOf(h)
            N     == Len(COMPOUNDS)
            pages == CeilDiv(N, ITEMS_PER_PAGE)
            rows  == calls[h][m].reply_markup
            bs    == CompoundButtons(rows)
        IN (0 <= p /\ p < pages) =>
              /\ Len(bs) = Min(ITEMS_PER_PAGE, N - p * ITEMS_PER_PAGE)
              /\ \A k \in 0..(Len(bs) - 1) :
                    LET idx == SplitInt(bs[k + 1].callback_data)
                    IN /\ Branch(bs[k + 1].callback_data) = "fetch"
                       /\ idx.ok
                       /\ idx.value = p * ITEMS_PER_PAGE + k
                       /\ 0 <= idx.value /\ idx.value < N
                       /\ bs[k + 1].text = <<COMPOUNDS[idx.value + 1].formula, " - ",
                                              COMPOUNDS[idx.value + 1].name>>
              /\ \A d \in {-1, 1} :
                    LET nav == ButtonsWith(rows, IF d = 1 THEN "Next" ELSE "Previous")
                    IN /\ Len(nav) <= 1
                       /\ \A j \in 1..Len(nav) :
                             /\ Branch(nav[j].callback_data) = "navigate"
                             /\ SplitInt(nav[j].callback_data).ok
                             /\ SplitInt(nav[j].callback_data).value = p + d
                             /\ 0 <= p + d /\ p + d < pages

\* page 1 of a three-page catalog was rendered: its first button carries
\* "compound_8", and it has both navigation buttons
C17_Witness ==
    \E h \in Handlers : \E m \in Menus(h) :
        /\ PageOf(h) = 1
        /\ Len(COMPOUNDS) > 2 * ITEMS_PER_PAGE
        /\ CompoundButtons(calls[h][m].reply_markup)[1].callback_data
              = <<"c", "o", "m", "p", "o", "u", "n", "d", "_", "8">>
        /\ Len(ButtonsWith(calls[h][m].reply_markup, "Next")) = 1
        /\ Len(ButtonsWith(calls[h][m].reply_markup, "Previous")) = 1

\* -------------------------------------------------------------------- C18

\* outward event e of a fetch is about record r
About(e, r) ==
    CASE e.op = "query.edit_message_text" ->
            e.text = <<"preparing", r.formula, r.name>>
      [] e.op = "requests.get" ->
            e.url = GITHUB_RAW_URL \o <<r.file>>
      [] e.op = "bot.send_document" ->
            /\ e.filename = r.file
            /\ e.caption = <<"caption", r.formula, r.name>>
            /\ e.document = <<"bytes at", GITHUB_RAW_URL \o <<r.file>>>>
      [] e.op = "bot.send_message" ->
            e.text = <<"sent", r.name>>
      [] e.op = "loading_msg.edit_text" /\ e.text[1] = "download_error" ->
            e.text = <<"download_error", r.file>>
      [] OTHER -> TRUE

\* handler h is past the bounds check of the fetch branch: its first outward
\* event is the "preparing" edit
PastBoundsCheck(h) ==
    /\ Len(Events(h)) >= 1
    /\ Events(h)[1].op = "query.edit_message_text"
    /\ Events(h)[1].text[1] = "preparing"

\* the record the "preparing" notice of handler h names
Noticed(h) ==
    LET formula == Events(h)[1].text[2]
    IN [formula |-> formula,
        name    |-> <<"name", formula[2], formula[3]>>,
        file    |-> <<"file", formula[2], formula[3]>>]

\* C18: with handlers interleaved at their awaits, every outward event of a
\* fetch that passed its bounds check (notice, GET, document name and
\* caption, confirmation or download-failure message) is about the one
\* record the notice names, whatever the catalog has become meanwhile.
C18_OneRecordPerFetch ==
    \A h \in Handlers :
        PastBoundsCheck(h) =>
            \A k \in 1..Len(Events(h)) : About(Events(h)[k], Noticed(h))

\* a relay of record 10 of the ten-record catalog ran to its confirmation
\* although another handler's refresh, still suspended at its edit, has
\* replaced the catalog by the three-record one
C18_Witness ==
    \E a, b \in Handlers :
        /\ a # b
        /\ PastBoundsCheck(a)
        /\ Noticed(a) = Rec(1, ITEMS_PER_PAGE + 2)
        /\ pc[a] = "done"
        /\ Len(StepCalls(a, "step3")) = 3
        /\ update[b].data = REFRESH
        /\ pc[b] = "final_edit"
        /\ COMPOUNDS = Catalog(2, 3)

\* -------------------------------------------------------------------- C19

\* the operations of the outward events of handler h, in order
Ops(h) == [k \in 1..Len(Events(h)) |-> Events(h)[k].op]

\* the document of handler h reached the user: send_document returned, the
\* handler went on to delete the notice
Delivered(h) == \E k \in 1..Len(Ops(h)) : Ops(h)[k] = "loading_msg.delete"

\* the handler of h edited the notice into an error message (download
\* failure or generic)
ErrorMessage(h) == \E k \in 1..Len(Ops(h)) : Ops(h)[k] = "loading_msg.edit_text"

\* the confirmation of handler h was sent
Confirmed(h) == \E k \in 1..Len(Ops(h)) : Ops(h)[k] = "bot.send_message"

\* C19 as claimed: a fetch never yields both the document and an error
\* message, and a delivered document is always followed by the confirmation.
C19_ExclusiveOutcomes ==
    \A h \in Handlers :
        PastBoundsCheck(h) =>
            /\ ~(Delivered(h) /\ ErrorMessage(h))
            /\ (Delivered(h) /\ pc[h] = "done") => Confirmed(h)

\* C19 as amended: a document is sent only after a 2xx response and never
\* together with the download-failure message; the confirmation is sent only
\* after the document was delivered and the notice deleted; at most one error
\* message is made; the generic error message follows a delivered document
\* exactly when the deletion of the notice or the confirmation send raised,
\* and a delivered document goes without confirmation only then.
C19_FetchOutcomes ==
    \A h \in Handlers :
        PastBoundsCheck(h) =>
            LET ops  == Ops(h)
                errs == {k \in 1..Len(ops) : ops[k] = "loading_msg.edit_text"}
            IN /\ (\E k \in 1..Len(ops) : ops[k] = "bot.send_document")
                     => GetOutcomes(h) = {"200"}
               /\ Len(StepCalls(h, "step4")) = 1
                     => /\ \A k \in 1..Len(ops) : ops[k] # "bot.send_document"
                        /\ ~Delivered(h)
                        /\ ~Confirmed(h)
               /\ Confirmed(h) =>
                     \E k \in 3..Len(ops) :
                        /\ ops[k] = "bot.send_message"
                        /\ ops[k - 1] = "loading_msg.delete"
                        /\ ops[k - 2] = "bot.send_document"
               /\ Cardinality(errs) <= 1
               /\ \A k \in errs :
                     Delivered(h) => ops[k - 1] \in {"loading_msg.delete", "bot.send_message"}
               /\ (Delivered(h) /\ pc[h] = "done" /\ ~Confirmed(h))
                     => \E k \in errs : ops[k - 1] = "loading_msg.delete"

\* the document was delivered, the deletion of the notice raised, and the
\* notice was edited into the generic error message: the user has both
C19_Witness ==
    \E h \in Handlers :
        /\ PastBoundsCheck(h)
        /\ pc[h] = "done"
        /\ Ops(h) = <<"query.edit_message_text", "requests.get", "bot.send_document",
                      "loading_msg.delete", "loading_msg.edit_text">>
        /\ Events(h)[5].text = <<"unexpected_error", "TelegramError">>

\* -------------------------------------------------------------------- C20

\* the outcome an outward event shows the user; "generic error" is the
\* pipeline's generic error message or the top-level handler's notice
Kind(e) ==
    CASE e.op = "query.edit_message_text" /\ e.text[1] = "select" -> "menu re-rendered"
      [] e.op = "query.edit_message_text" /\ e.text[1] = "refreshed" -> "refresh reported"
      [] e.op = "query.edit_message_text" /\ e.text[1] = "not_found" -> "not found"
      [] e.op = "bot.send_message" -> "file plus confirmation"
      [] e.op = "loading_msg.edit_text" /\ e.text[1] = "download_error"
            -> "download-failure message"
      [] e.op = "loading_msg.edit_text" /\ e.text[1] = "unexpected_error"
            -> "generic error"
      [] e.op = "effective_message.reply_text" -> "generic error"
      [] OTHER -> "none"

\* the outcome the handling of a selection by handler h ended in: that of its
\* last outward event
Terminal(h) ==
    IF Events(h) = <<>> THEN "ignored token" ELSE Kind(Events(h)[Len(Events(h))])

TerminalOutcomes ==
    {"menu re-rendered", "refresh reported", "not found", "file plus confirmation",
     "download-failure message", "generic error", "ignored token"}

\* handler h has handled a selection to its end
SelectionDone(h) == pc[h] = "done" /\ update[h].kind = "callback_query"

\* C20: when every awaited call returns or raises, a handler that has started
\* comes back to idle; no outward call is made twice; at its end a selection
\* has exactly one of the seven terminal outcomes (an error outcome only as
\* the last event, a confirmation only after the whole relay, an ignored
\* token only for an unknown one); an idle handler keeps no update, no
\* record and no calls.
C20_SelectionCompletes ==
    /\ \A h \in Handlers : (pc[h] # "idle") ~> (pc[h] = "idle")
    /\ [](\A h \in Handlers :
            /\ pc[h] = "idle" =>
                  update[h] = NoUpdate /\ compound[h] = NoCompound /\ calls[h] = <<>>
            /\ \A j, k \in 1..Len(Events(h)) :
                  Events(h)[j].op = Events(h)[k].op => j = k
            /\ SelectionDone(h) =>
                  /\ Terminal(h) \in TerminalOutcomes
                  /\ Cardinality({Kind(Events(h)[k]) : k \in 1..Len(Events(h))}
                                  \ {"none", "generic error"}) <= 1
                  /\ Terminal(h) # "generic error" =>
                        \A k \in 1..Len(Events(h)) :
                            Kind(Events(h)[k]) \in {"none", Terminal(h)}
                  /\ Terminal(h) = "file plus confirmation" =>
                        Ops(h) = <<"query.edit_message_text", "requests.get",
                                   "bot.send_document", "loading_msg.delete",
                                   "bot.send_message">>
                  /\ Terminal(h) = "ignored token" => UnknownToken(update[h].data))

\* a selection whose GET timed out ended, after that one GET, in the
\* download-failure message
C20_Witness ==
    \E h \in Handlers :
        /\ SelectionDone(h)
        /\ Terminal(h) = "download-failure message"
        /\ Ops(h) = <<"query.edit_message_text", "requests.get", "loading_msg.edit_text">>
        /\ Events(h)[2].outcome = "Timeout"

====
